---- MODULE Spec2Model ----
(***************************************************************************)
(* Model of the course-approval-form extraction pipeline                   *)
(* (app/caf_parser.py, app/ai_extractor.py, app/streamlit_app.py).         *)
(*                                                                         *)
(* Text is modelled by TLC strings, read character by character with       *)
(* SubSeq.  The en-dash U+2013 of the source is written "~" (EnDash): the  *)
(* module is ASCII, and "~" occurs in no other role.  Python's None is the *)
(* value None.                                                             *)
(***************************************************************************)
EXTENDS Integers, Sequences, FiniteSets, TLC

VARIABLES
    call,       \* the arguments of the function under check (pure-function specifications)
    ret,        \* <<>> while the call is pending, <<value>> once it has returned
    pc,         \* position of parse_caf_pdf_hybrid in the document
    pdf,        \* the document: what pdfplumber yields for it
    response,   \* what the generative collaborator answers for the document
    directory,  \* program_directory: None or a sequence of reference programs
    rows,       \* the record list (rows / df) as the pipeline transforms it
    origin,     \* for each record of rows, the index of the extracted record it comes from
    extracted,  \* the records as they left extraction (before NORMALIZE)
    ruleRows,   \* the list _parse_caf_pdf_rule returned
    aiCalls,    \* invocations of ai_extract_courses_from_pdf_bytes
    result,     \* what parse_caf_pdf_hybrid gave the caller: <<>>, <<"ok">> (rows is the frame) or <<"error", kind>>
    uploaded_files, \* the files of the Extract Courses handler: [name, pdf], in upload order
    file_index,     \* the position of the handler's loop in uploaded_files
    all_rows,       \* the frames the handler has appended
    outcomes,       \* for each file processed, what parse_caf_pdf_hybrid gave: [ok, frame]
    result_df       \* <<>>, or <<frame>> once the handler has concatenated

loopVars == <<uploaded_files, file_index, all_rows, outcomes, result_df>>

vars == <<call, ret, pc, pdf, response, directory, rows, origin, extracted, ruleRows, aiCalls, result,
          loopVars>>

pipeVars == <<pc, pdf, response, directory, rows, origin, extracted, ruleRows, aiCalls, result,
              loopVars>>

None == "<None>"

EnDash == "~"

(***************************************************************************)
(* Characters and Python's str methods                                     *)
(***************************************************************************)
Ch(s, i) == SubSeq(s, i, i)

UpperChars == "ABCDEFGHIJKLMNOPQRSTUVWXYZ"

LowerChars == "abcdefghijklmnopqrstuvwxyz"

DigitChars == "0123456789"

Upper == {Ch(UpperChars, i) : i \in 1..Len(UpperChars)}

Lower == {Ch(LowerChars, i) : i \in 1..Len(LowerChars)}

Letter == Upper \cup Lower

Digit == {Ch(DigitChars, i) : i \in 1..Len(DigitChars)}

Space == {" ", "\t", "\n"}

LowerOf == [c \in Upper |-> Ch(LowerChars, CHOOSE i \in 1..Len(UpperChars) : Ch(UpperChars, i) = c)]

\* str.lower()
RECURSIVE lower(_)
lower(s) ==
    IF s = "" THEN ""
    ELSE (IF Head(s) \in Upper THEN LowerOf[Head(s)] ELSE Head(s)) \o lower(Tail(s))

\* str.lstrip(chars)
RECURSIVE lstrip(_, _)
lstrip(s, chars) ==
    IF s # "" /\ Head(s) \in chars THEN lstrip(Tail(s), chars) ELSE s

\* str.rstrip(chars)
RECURSIVE rstrip(_, _)
rstrip(s, chars) ==
    IF s # "" /\ Ch(s, Len(s)) \in chars THEN rstrip(SubSeq(s, 1, Len(s) - 1), chars) ELSE s

\* str.strip()
strip(s) == rstrip(lstrip(s, Space), Space)

\* length of the longest run of characters of class cls that starts at s[i]
RECURSIVE Run(_, _, _)
Run(s, i, cls) ==
    IF i <= Len(s) /\ Ch(s, i) \in cls THEN 1 + Run(s, i + 1, cls) ELSE 0

\* length of the longest run of characters outside class cls that starts at s[i]
RECURSIVE RunNot(_, _, _)
RunNot(s, i, cls) ==
    IF i <= Len(s) /\ Ch(s, i) \notin cls THEN 1 + RunNot(s, i + 1, cls) ELSE 0

\* str.split(): the whitespace-delimited tokens, in order
RECURSIVE split(_)
split(s) ==
    LET t == lstrip(s, Space)
        n == RunNot(t, 1, Space)
    IN IF t = "" THEN <<>> ELSE <<SubSeq(t, 1, n)>> \o split(SubSeq(t, n + 1, Len(t)))

\* sep.join(parts)
RECURSIVE join(_, _)
join(sep, parts) ==
    IF parts = <<>> THEN ""
    ELSE IF Len(parts) = 1 THEN parts[1]
    ELSE parts[1] \o sep \o join(sep, Tail(parts))

\* any(ch.isdigit() for ch in s)
has_digit(s) == \E i \in 1..Len(s) : Ch(s, i) \in Digit

\* needle in s
contains(s, needle) ==
    \E i \in 1..(Len(s) - Len(needle) + 1) : SubSeq(s, i, i + Len(needle) - 1) = needle

(***************************************************************************)
(* Smart course number/title split                                         *)
(***************************************************************************)
CodeTail == Letter \cup Digit \cup {"-"}

\* A slip in the code pattern: a single digit is taken for a digit run.
code_prefix_len_one_digit(s) ==
    LET l  == Run(s, 1, Letter)
        w  == Run(s, l + 1, Space)
        d  == Run(s, l + w + 1, Digit)
        k  == Run(s, l + w + d + 1, CodeTail)
    IN IF l >= 2 /\ d >= 1 THEN l + w + d + k ELSE 0

\* Length of the text that [A-Za-z]{2,}\s*\d{2,}[A-Za-z0-9\-]* matches at the
\* start of s, as the greedy matcher finds it; 0 when it does not match.
code_prefix_len(s) ==
    LET l  == Run(s, 1, Letter)
        w  == Run(s, l + 1, Space)
        d  == Run(s, l + w + 1, Digit)
        k  == Run(s, l + w + d + 1, CodeTail)
    IN IF l >= 2 /\ d >= 2 THEN l + w + d + k ELSE 0

\* COURSE_CODE_RE.match(s)
COURSE_CODE_RE(s) == code_prefix_len(s) > 0 /\ code_prefix_len(s) = Len(s)

Separator == {"-", EnDash}

\* The positions i at which ^(.+?)\s*[-~]\s*(.+)$ can place its separator:
\* one character at least before it and one after it.
sep_positions(s) == {i \in 2..(Len(s) - 1) : Ch(s, i) \in Separator}

\* The separator position the lazy (.+?) settles on: the leftmost.
first_sep(s) == CHOOSE i \in sep_positions(s) : \A j \in sep_positions(s) : i <= j

_split_course_number_title(raw) ==
    IF raw = "" THEN <<"", "">>
    ELSE
    LET text == join(" ", split(raw))
        n1 == code_prefix_len(text)
        parts == split(text)
    IN  IF n1 > 0 THEN
            LET rest == lstrip(SubSeq(text, n1 + 1, Len(text)), Space)
            IN <<strip(SubSeq(text, 1, n1)), strip(lstrip(rest, {":", "-", EnDash, " "}))>>
        ELSE IF sep_positions(text) # {} THEN
            LET i == first_sep(text)
                left == strip(SubSeq(text, 1, i - 1))
                right == strip(SubSeq(text, i + 1, Len(text)))
            IN IF COURSE_CODE_RE(left) THEN <<left, right>> ELSE <<"", text>>
        ELSE IF ~has_digit(text) THEN <<"", text>>
        ELSE IF has_digit(parts[1]) THEN <<parts[1], strip(join(" ", Tail(parts)))>>
        ELSE <<"", text>>

\* the sequences over S of length at most n
RECURSIVE SeqsUpTo(_, _)
SeqsUpTo(S, n) ==
    IF n = 0 THEN {<<>>}
    ELSE LET T == SeqsUpTo(S, n - 1) IN T \cup {Append(t, x) : t \in T, x \in S}

(***************************************************************************)
(* Data frames: the column names in order, and the rows as functions from  *)
(* column name to value.  pd.DataFrame([]) has no columns and no rows.     *)
(***************************************************************************)
DataFrame(columns, data) == [columns |-> columns, data |-> data]

EmptyFrame == DataFrame(<<>>, <<>>)

\* the keys of the row dicts of _parse_caf_pdf_rule and ai_extract_courses_from_pdf_bytes
RowColumns ==
    <<"Program", "Year", "Term", "City", "Country", "Course Number", "Course Title",
      "UR Course Equivalent", "Discipline", "Type of Credit", "US Credits",
      "Foreign Credits", "Link Course Search", "Link to Syllabus", "Students",
      "Comments", "_source">>

\* pd.DataFrame(rows) for a list of row dicts
FrameOf(dicts) == IF dicts = <<>> THEN EmptyFrame ELSE DataFrame(RowColumns, dicts)

\* x or ""
OrEmpty(x) == IF x = None THEN "" ELSE x

(***************************************************************************)
(* Normalize AI output for title-only courses                              *)
(***************************************************************************)
PureTitleMinLen == 10

JustCreditsMaxLen == 20

looks_like_code(s0) ==
    LET s == strip(s0)
    IN IF s = "" THEN FALSE ELSE COURSE_CODE_RE(split(s)[1])

\* A rewrite that lets the title-in-number repair win over the merge.
normalize_row_number_first(row) ==
    LET num == strip(OrEmpty(row["Course Number"]))
        title == strip(OrEmpty(row["Course Title"]))
        is_pure_title_num ==
            ~has_digit(num) /\ Len(num) > PureTitleMinLen /\ ~looks_like_code(num)
        num_mentions_credits == contains(lower(num), "credit") /\ ~looks_like_code(num)
        title_is_just_credits ==
            title # "" /\ contains(lower(title), "credit") /\ Len(title) <= JustCreditsMaxLen
        new_title ==
            IF is_pure_title_num \/ num_mentions_credits THEN num
            ELSE strip(num \o " " \o title)
    IN  IF num = "" THEN row
        ELSE IF is_pure_title_num \/ num_mentions_credits \/ title_is_just_credits
        THEN [row EXCEPT !["Course Title"] = new_title, !["Course Number"] = ""]
        ELSE row

\* the body of the loop over df.iterrows()
normalize_row(row) ==
    LET num == strip(OrEmpty(row["Course Number"]))
        title == strip(OrEmpty(row["Course Title"]))
        is_pure_title_num ==
            ~has_digit(num) /\ Len(num) > PureTitleMinLen /\ ~looks_like_code(num)
        num_mentions_credits == contains(lower(num), "credit") /\ ~looks_like_code(num)
        title_is_just_credits ==
            title # "" /\ contains(lower(title), "credit") /\ Len(title) <= JustCreditsMaxLen
        new_title ==
            IF title # "" /\ title_is_just_credits THEN strip(num \o " " \o title) ELSE num
    IN  IF num = "" THEN row
        ELSE IF is_pure_title_num \/ num_mentions_credits \/ title_is_just_credits
        THEN [row EXCEPT !["Course Title"] = new_title, !["Course Number"] = ""]
        ELSE row

_normalize_course_number_title_columns(df) ==
    IF df.data = <<>> THEN df
    ELSE [df EXCEPT !.data = [i \in 1..Len(df.data) |-> normalize_row(df.data[i])]]

(***************************************************************************)
(* Rule-based parser (pdfplumber)                                          *)
(*                                                                         *)
(* A document is [kind, table, images]: kind "unreadable" (pdfplumber.open *)
(* raises), "no_pages" (pdf.pages[0] raises), "no_table" (extract_table    *)
(* returns None) or "table"; table is the grid, a sequence of rows of      *)
(* cells, each a string or None; images is what pdf_to_page_images_b64     *)
(* does with the document: "raises", "none" or "some".                     *)
(***************************************************************************)
\* find_col(keywords): the 1-based index of the first header cell that
\* contains a keyword, case-insensitively; 0 for None
find_col_case_sensitive(header, keywords) ==
    LET hit(i) == \E kw \in keywords : contains(header[i], kw)
    IN IF \E i \in 1..Len(header) : hit(i)
       THEN CHOOSE i \in 1..Len(header) : hit(i) /\ \A j \in 1..(i - 1) : ~hit(j)
       ELSE 0

find_col(header, keywords) ==
    LET hit(i) == \E kw \in keywords : contains(lower(header[i]), lower(kw))
    IN IF \E i \in 1..Len(header) : hit(i)
       THEN CHOOSE i \in 1..Len(header) : hit(i) /\ \A j \in 1..(i - 1) : ~hit(j)
       ELSE 0

\* header = [h.strip() if h else "" for h in table[0]]
header_of(table) ==
    [i \in 1..Len(table[1]) |-> IF table[1][i] \in {None, ""} THEN "" ELSE strip(table[1][i])]

idx_foreign(header) == find_col(header, {"Subject", "Number", "Title"})

idx_equiv(header) == find_col(header, {"UR Course Equivalent"})

idx_elective(header) == find_col(header, {"Elective"})

idx_major(header) == find_col(header, {"Major"})

idx_comments(header) == find_col(header, {"Comment"})

\* any(line)
any_cell(line) == \E i \in 1..Len(line) : line[i] \notin {None, ""}

\* line[idx] raises IndexError
index_error(line, idx) == idx > Len(line)

\* (line[idx] or "").strip() if idx is not None else ""
cell_text(line, idx) == IF idx = 0 THEN "" ELSE strip(OrEmpty(line[idx]))

\* The labels of the if/elif chain exchanged.
type_of_credit_swapped(elective_val, major_val) ==
    IF elective_val # "" /\ major_val # "" THEN "Major/Minor, Elective"
    ELSE IF elective_val # "" THEN "Major/Minor"
    ELSE IF major_val # "" THEN "Elective"
    ELSE ""

\* Determine type_of_credit based on where signatures/marks are
type_of_credit(elective_val, major_val) ==
    IF elective_val # "" /\ major_val # "" THEN "Major/Minor, Elective"
    ELSE IF elective_val # "" THEN "Elective"
    ELSE IF major_val # "" THEN "Major/Minor"
    ELSE ""

\* what the loop body does with one line: "skip" (continue), "raise"
\* (IndexError) or "row" (rows.append)
line_outcome(header, line) ==
    IF ~any_cell(line) THEN "skip"
    ELSE IF idx_foreign(header) # 0 /\ index_error(line, idx_foreign(header)) THEN "raise"
    ELSE IF cell_text(line, idx_foreign(header)) = "" THEN "skip"
    ELSE IF \E idx \in {idx_equiv(header), idx_elective(header), idx_major(header),
                        idx_comments(header)} : index_error(line, idx) THEN "raise"
    ELSE "row"

\* the dict appended for one line
rule_row(header, line) ==
    LET nt == _split_course_number_title(cell_text(line, idx_foreign(header)))
        credit == type_of_credit(cell_text(line, idx_elective(header)),
                                 cell_text(line, idx_major(header)))
    IN [c \in {RowColumns[i] : i \in 1..Len(RowColumns)} |->
          CASE c = "Course Number" -> nt[1]
            [] c = "Course Title" -> nt[2]
            [] c = "UR Course Equivalent" -> cell_text(line, idx_equiv(header))
            [] c = "Type of Credit" -> credit
            [] c = "Comments" -> cell_text(line, idx_comments(header))
            [] c = "_source" -> "rule"
            [] c \in {"Year", "City", "Country", "US Credits", "Foreign Credits"} -> None
            [] OTHER -> ""]

RECURSIVE rule_rows(_, _)
rule_rows(header, lines) ==
    IF lines = <<>> THEN <<>>
    ELSE (IF line_outcome(header, Head(lines)) = "row"
          THEN <<rule_row(header, Head(lines))>> ELSE <<>>) \o rule_rows(header, Tail(lines))

\* _parse_caf_pdf_rule: the rows, or [] when there is no table, the table has
\* no data row, or anything raises inside the try block
_parse_caf_pdf_rule(doc) ==
    IF doc.kind \in {"unreadable", "no_pages"} THEN <<>>
    ELSE IF doc.kind = "no_table" \/ Len(doc.table) <= 1 THEN <<>>
    ELSE LET header == header_of(doc.table)
             lines == Tail(doc.table)
         IN IF \E i \in 1..Len(lines) : line_outcome(header, lines[i]) = "raise" THEN <<>>
            ELSE rule_rows(header, lines)

(***************************************************************************)
(* difflib: SequenceMatcher and get_close_matches, as _match_program_name  *)
(* uses them (no junk; the strings are far below autojunk's 200 elements)  *)
(***************************************************************************)
\* the characters in code-point order (EnDash, written "~", last)
CodePoints ==
    "\t\n (),-./0123456789:ABCDEFGHIJKLMNOPQRSTUVWXYZabcdefghijklmnopqrstuvwxyz~"

ord(c) == CHOOSE i \in 1..Len(CodePoints) : Ch(CodePoints, i) = c

\* x < y for two str
RECURSIVE str_lt(_, _)
str_lt(x, y) ==
    IF y = "" THEN FALSE
    ELSE IF x = "" THEN TRUE
    ELSE IF Head(x) = Head(y) THEN str_lt(Tail(x), Tail(y))
    ELSE ord(Head(x)) < ord(Head(y))

\* length of the common run of a from i and b from j
RECURSIVE common_run(_, _, _, _)
common_run(a, b, i, j) ==
    IF i <= Len(a) /\ j <= Len(b) /\ Ch(a, i) = Ch(b, j)
    THEN 1 + common_run(a, b, i + 1, j + 1) ELSE 0

\* SequenceMatcher.find_longest_match over all of a and b: <<i, j, k>>, the
\* longest block, the earliest in a among the longest, then the earliest in b
find_longest_match(a, b) ==
    LET runs == {<<i, j, common_run(a, b, i, j)>> : i \in 1..Len(a), j \in 1..Len(b)}
    IN CHOOSE m \in runs : \A r \in runs :
          \/ m[3] > r[3]
          \/ m[3] = r[3] /\ m[1] < r[1]
          \/ m[3] = r[3] /\ m[1] = r[1] /\ m[2] <= r[2]

\* sum of the sizes of SequenceMatcher.get_matching_blocks()
RECURSIVE matching_size(_, _)
matching_size(a, b) ==
    IF a = "" \/ b = "" THEN 0
    ELSE LET m == find_longest_match(a, b)
         IN IF m[3] = 0 THEN 0
            ELSE m[3] + matching_size(SubSeq(a, 1, m[1] - 1), SubSeq(b, 1, m[2] - 1))
                      + matching_size(SubSeq(a, m[1] + m[3], Len(a)), SubSeq(b, m[2] + m[3], Len(b)))

count(s, c) == Cardinality({i \in 1..Len(s) : Ch(s, i) = c})

RECURSIVE sum_min_counts(_, _, _)
sum_min_counts(chars, a, b) ==
    IF chars = {} THEN 0
    ELSE LET c == CHOOSE x \in chars : TRUE
             ca == count(a, c)
             cb == count(b, c)
         IN (IF ca < cb THEN ca ELSE cb) + sum_min_counts(chars \ {c}, a, b)

\* the match counts behind real_quick_ratio(), quick_ratio() and ratio()
real_quick_matches(a, b) == IF Len(a) < Len(b) THEN Len(a) ELSE Len(b)

quick_matches(a, b) == sum_min_counts({Ch(a, i) : i \in 1..Len(a)}, a, b)

\* cutoff=0.6
CutoffNum == 6

CutoffDen == 10

\* _calculate_ratio(matches, length) >= cutoff
ratio_at_least_cutoff(matches, length) ==
    IF length = 0 THEN TRUE ELSE 2 * matches * CutoffDen >= CutoffNum * length

\* (score1, x1) < (score2, x2), the scores being 2*m/length
scored_lt(m1, l1, x1, m2, l2, x2) ==
    \/ m1 * l2 < m2 * l1
    \/ m1 * l2 = m2 * l1 /\ str_lt(x1, x2)

\* get_close_matches(word, possibilities, n=1, cutoff=0.6): <<>> or <<best>>
get_close_matches(word, possibilities) ==
    LET close == {i \in 1..Len(possibilities) :
                    LET x == possibilities[i]
                        length == Len(x) + Len(word)
                    IN  /\ ratio_at_least_cutoff(real_quick_matches(x, word), length)
                        /\ ratio_at_least_cutoff(quick_matches(x, word), length)
                        /\ ratio_at_least_cutoff(matching_size(x, word), length)}
        m(i) == matching_size(possibilities[i], word)
        l(i) == Len(possibilities[i]) + Len(word)
    IN  IF close = {} THEN <<>>
        ELSE LET best == CHOOSE i \in close : \A j \in close :
                            ~scored_lt(m(i), l(i), possibilities[i], m(j), l(j), possibilities[j])
             IN <<possibilities[best]>>

(***************************************************************************)
(* Program name matching helpers                                           *)
(***************************************************************************)
\* str.replace(old, "")
RECURSIVE remove_all(_, _)
remove_all(s, old) ==
    IF Len(s) < Len(old) THEN s
    ELSE IF SubSeq(s, 1, Len(old)) = old THEN remove_all(SubSeq(s, Len(old) + 1, Len(s)), old)
    ELSE Head(s) \o remove_all(Tail(s), old)

_normalize_program_str(x) == lower(strip(remove_all(x, "Star icon")))

token_set(s) == {split(s)[i] : i \in 1..Len(split(s))}

\* the first index of a for loop over the list at which the test holds, given
\* the set of the indices at which it holds; 0 when there is none
FirstIndex(hits) ==
    IF hits = {} THEN 0 ELSE CHOOSE i \in hits : \A j \in hits : i <= j

\* A reordering: the token inclusion pass runs before the exact pass.
_match_program_name_inclusion_first(value, program_list) ==
    LET value_norm == _normalize_program_str(value)
        tokens == token_set(value_norm)
        is_exact(p) == _normalize_program_str(p) = value_norm
        is_inclusion(p) ==
            LET ptoks == token_set(_normalize_program_str(p))
            IN tokens \subseteq ptoks \/ ptoks \subseteq tokens
        dir_norm == [i \in 1..Len(program_list) |-> _normalize_program_str(program_list[i])]
        fuzzy == get_close_matches(value_norm, dir_norm)
        is_fuzzy(p) == _normalize_program_str(p) = fuzzy[1]
        exact_hits == {i \in 1..Len(program_list) : is_exact(program_list[i])}
        inclusion_hits == {i \in 1..Len(program_list) : is_inclusion(program_list[i])}
        fuzzy_hits == {i \in 1..Len(program_list) : is_fuzzy(program_list[i])}
    IN  IF value = "" THEN None
        ELSE IF tokens = {} THEN None
        ELSE IF FirstIndex(inclusion_hits) # 0
            THEN program_list[FirstIndex(inclusion_hits)]
        ELSE IF FirstIndex(exact_hits) # 0
            THEN program_list[FirstIndex(exact_hits)]
        ELSE IF fuzzy # <<>> /\ FirstIndex(fuzzy_hits) # 0
            THEN program_list[FirstIndex(fuzzy_hits)]
        ELSE None

_match_program_name(value, program_list) ==
    LET value_norm == _normalize_program_str(value)
        tokens == token_set(value_norm)
        is_exact(p) == _normalize_program_str(p) = value_norm
        is_inclusion(p) ==
            LET ptoks == token_set(_normalize_program_str(p))
            IN tokens \subseteq ptoks \/ ptoks \subseteq tokens
        dir_norm == [i \in 1..Len(program_list) |-> _normalize_program_str(program_list[i])]
        fuzzy == get_close_matches(value_norm, dir_norm)
        is_fuzzy(p) == _normalize_program_str(p) = fuzzy[1]
        exact_hits == {i \in 1..Len(program_list) : is_exact(program_list[i])}
        inclusion_hits == {i \in 1..Len(program_list) : is_inclusion(program_list[i])}
        fuzzy_hits == {i \in 1..Len(program_list) : is_fuzzy(program_list[i])}
    IN  IF value = "" THEN None
        ELSE IF tokens = {} THEN None
        ELSE IF FirstIndex(exact_hits) # 0
            THEN program_list[FirstIndex(exact_hits)]
        ELSE IF FirstIndex(inclusion_hits) # 0
            THEN program_list[FirstIndex(inclusion_hits)]
        ELSE IF fuzzy # <<>> /\ FirstIndex(fuzzy_hits) # 0
            THEN program_list[FirstIndex(fuzzy_hits)]
        ELSE None

(***************************************************************************)
(* Generative extraction                                                   *)
(*                                                                         *)
(* The collaborator's answer, after the fence stripping of                 *)
(* _call_gpt4o_on_images, is [kind |-> "invalid_json"] (json.loads         *)
(* raises), [kind |-> "not_object"] (JSON, but no dict: data.get raises)   *)
(* or an object [kind, program, has_courses, courses]; has_courses tells   *)
(* whether the "courses" key is there; a course is a dict whose absent or  *)
(* null values are None.                                                   *)
(***************************************************************************)
\* the dict appended for one course of the answer
ai_row(data, c) ==
    [col \in {RowColumns[i] : i \in 1..Len(RowColumns)} |->
        CASE col = "Program" -> OrEmpty(data.program)
          [] col = "Course Number" -> OrEmpty(c.course_number)
          [] col = "Course Title" -> OrEmpty(c.course_title)
          [] col = "UR Course Equivalent" -> OrEmpty(c.ur_course_equiv)
          [] col = "Type of Credit" -> OrEmpty(c.type_of_credit)
          [] col = "Comments" -> OrEmpty(c.comments)
          [] col = "_source" -> "ai"
          [] col \in {"Year", "City", "Country", "US Credits", "Foreign Credits"} -> None
          [] OTHER -> ""]

\* courses = data.get("courses", []) or []
courses_of(data) == IF data.has_courses THEN data.courses ELSE <<>>

\* ai_extract_courses_from_pdf_bytes: [raised, rows]
ai_extract_courses_from_pdf_bytes(doc, data) ==
    IF doc.images = "raises" THEN [raised |-> TRUE, rows |-> <<>>]
    ELSE IF doc.images = "none" THEN [raised |-> FALSE, rows |-> <<>>]
    ELSE IF data.kind \in {"invalid_json", "not_object"} THEN [raised |-> TRUE, rows |-> <<>>]
    ELSE [raised |-> FALSE,
          rows |-> [i \in 1..Len(courses_of(data)) |-> ai_row(data, courses_of(data)[i])]]

(***************************************************************************)
(* Enrich Program -> City/Country via smart merge                          *)
(*                                                                         *)
(* A program directory is NoDirectory or [name_column, entries]: name_column is *)
(* the column that holds the names ("Program", "Program Name", or another  *)
(* name when the file has neither), entries the rows [name, City, Country] *)
(***************************************************************************)
\* program_directory=None
NoDirectory == [name_column |-> None, entries |-> <<>>]

\* prog["Program"] after the normalization of the directory
directory_programs(dir) ==
    [i \in 1..Len(dir.entries) |->
        IF dir.name_column = "Program Name"
        THEN strip(strip(remove_all(dir.entries[i].name, "Star icon")))
        ELSE strip(dir.entries[i].name)]

\* df.merge(..., left_on="Matched Program", right_on="Program", how="left"):
\* the pairs <<left row, right row>>, 0 for no right row, in the order of the result
RECURSIVE merge_left(_, _, _)
merge_left(matched, programs, i) ==
    IF i > Len(matched) THEN <<>>
    ELSE LET hits == SelectSeq([r \in 1..Len(programs) |-> r],
                               LAMBDA r : matched[i] # None /\ programs[r] = matched[i])
         IN (IF hits = <<>> THEN << <<i, 0>> >> ELSE [k \in 1..Len(hits) |-> <<i, hits[k]>>])
            \o merge_left(matched, programs, i + 1)

\* An enrichment that keeps a value the record already has.
combine_first_keep_own(dir_value, own_value) ==
    IF own_value \notin {None, ""} THEN own_value
    ELSE IF dir_value # None THEN dir_value ELSE own_value

\* dir_value.combine_first(own_value)
combine_first(dir_value, own_value) == IF dir_value # None THEN dir_value ELSE own_value

\* str(x) of a cell that holds a string or None
str(x) == IF x = None THEN "None" ELSE x

\* df["Matched Program"]
matched_programs(df, all_programs) ==
    [i \in 1..Len(df.data) |-> _match_program_name(str(df.data[i]["Program"]), all_programs)]

\* the City_dir / Country_dir cell of a merged row: None when no right row
dir_value(dir, r, col) == IF r = 0 THEN None ELSE dir.entries[r][col]

\* the merged frame after the two combine_first assignments and the drops
merged_frame(df, orig, dir, pairs) ==
    [raised |-> FALSE,
     frame |-> [df EXCEPT !.data =
                  [k \in 1..Len(pairs) |->
                     [df.data[pairs[k][1]] EXCEPT
                        !["City"] = combine_first(dir_value(dir, pairs[k][2], "City"), @),
                        !["Country"] = combine_first(dir_value(dir, pairs[k][2], "Country"), @)]]],
     origin |-> [k \in 1..Len(pairs) |-> orig[pairs[k][1]]]]

\* step 4 of parse_caf_pdf_hybrid on a non-empty frame: [raised, frame, origin]
enrich(df, orig, dir) ==
    IF dir = NoDirectory THEN [raised |-> FALSE, frame |-> df, origin |-> orig]
    ELSE IF dir.name_column \notin {"Program", "Program Name"}
        THEN [raised |-> TRUE, frame |-> df, origin |-> orig]
    ELSE merged_frame(df, orig, dir,
                      merge_left(matched_programs(df, directory_programs(dir)),
                                 directory_programs(dir), 1))

(***************************************************************************)
(* Drop rows without approvals, final column order                         *)
(***************************************************************************)
desired_order ==
    <<"Program", "Year", "Term", "City", "Country", "Course Number", "Course Title",
      "UR Course Equivalent", "Discipline", "Type of Credit", "US Credits",
      "Foreign Credits", "Link Course Search", "Link to Syllabus", "Students",
      "Comments", "_source">>

\* df["Type of Credit"].fillna("").str.strip()
stripped_credit(row) == [row EXCEPT !["Type of Credit"] = strip(OrEmpty(@))]

\* the indices of the rows that df[df["Type of Credit"] != ""] keeps
kept(df) ==
    SelectSeq([i \in 1..Len(df.data) |-> i],
              LAMBDA i : stripped_credit(df.data[i])["Type of Credit"] # "")

\* df[desired_order], the columns the frame lacks added as None
project(row) ==
    [c \in {desired_order[i] : i \in 1..Len(desired_order)} |->
        IF c \in DOMAIN row THEN row[c] ELSE None]

filter_project(df) ==
    DataFrame(desired_order,
              [k \in 1..Len(kept(df)) |-> project(stripped_credit(df.data[kept(df)[k]]))])

(***************************************************************************)
(* Hybrid parser (rule -> AI): parse_caf_pdf_hybrid, one action per stage  *)
(***************************************************************************)
\* A guard that sends every document to the generative collaborator.
takes_fallback_always(parsed) == TRUE

\* if not rows
takes_fallback(parsed) == parsed = <<>>

StructuralParse ==
    /\ pc = "STRUCTURAL_PARSE"
    /\ ruleRows' = _parse_caf_pdf_rule(pdf)
    /\ IF takes_fallback(ruleRows')
       THEN /\ pc' = "GENERATIVE_FALLBACK"
            /\ UNCHANGED <<rows, origin, extracted>>
       ELSE /\ pc' = "NORMALIZE"
            /\ rows' = FrameOf(ruleRows')
            /\ extracted' = FrameOf(ruleRows')
            /\ origin' = [i \in 1..Len(ruleRows') |-> i]
    /\ UNCHANGED <<call, ret, loopVars, pdf, response, directory, aiCalls, result>>

\* rows = ai_extract_courses_from_pdf_bytes(pdf_bytes); df = pd.DataFrame(rows);
\* if df.empty: return df.  The collaborator answers only when it is asked.
GenerativeFallback(data) ==
    /\ pc = "GENERATIVE_FALLBACK"
    /\ aiCalls' = aiCalls + 1
    /\ response' = IF pdf.images = "some" THEN data ELSE response
    /\ LET out == ai_extract_courses_from_pdf_bytes(pdf, data)
       IN IF out.raised
          THEN /\ pc' = "ERROR"
               /\ result' = <<"error", "GENERATIVE_FALLBACK">>
               /\ UNCHANGED <<rows, origin, extracted>>
          ELSE /\ rows' = FrameOf(out.rows)
               /\ extracted' = FrameOf(out.rows)
               /\ origin' = [i \in 1..Len(out.rows) |-> i]
               /\ IF out.rows = <<>>
                  THEN pc' = "DONE" /\ result' = <<"ok">>
                  ELSE pc' = "NORMALIZE" /\ UNCHANGED result
    /\ UNCHANGED <<call, ret, loopVars, pdf, directory, ruleRows>>

Normalize ==
    /\ pc = "NORMALIZE"
    /\ rows' = _normalize_course_number_title_columns(rows)
    /\ pc' = "ENRICH"
    /\ UNCHANGED <<call, ret, loopVars, pdf, response, directory, origin, extracted, ruleRows, aiCalls, result>>

Enrich ==
    /\ pc = "ENRICH"
    /\ \E out \in {enrich(rows, origin, directory)} :
          IF out.raised
          THEN /\ pc' = "ERROR"
               /\ result' = <<"error", "ENRICH">>
               /\ UNCHANGED <<rows, origin>>
          ELSE /\ rows' = out.frame
               /\ origin' = out.origin
               /\ pc' = "FILTER"
               /\ UNCHANGED result
    /\ UNCHANGED <<call, ret, loopVars, pdf, response, directory, extracted, ruleRows, aiCalls>>

FilterProject ==
    /\ pc = "FILTER"
    /\ rows' = filter_project(rows)
    /\ origin' = [k \in 1..Len(kept(rows)) |-> origin[kept(rows)[k]]]
    /\ pc' = "DONE"
    /\ result' = <<"ok">>
    /\ UNCHANGED <<call, ret, loopVars, pdf, response, directory, extracted, ruleRows, aiCalls>>

(***************************************************************************)
(* Specification Spec: parse_caf_pdf_hybrid on one document.  The grid is  *)
(* FullHeader over at most MaxRows lines of LineSamples, or another header *)
(* of HeaderSamples over at most one line; the collaborator answers with   *)
(* one of ResponseSamples.                                                 *)
(***************************************************************************)
MaxRows == 2

FullHeader ==
    <<"Course Subject/Number and Title", "UR Course Equivalent", "Major/Minor",
      "Elective", "Comments">>

HeaderSamples ==
    { FullHeader,
      <<"Foreign Course", "UR Course Equivalent", "Elective Approval", "Major/Minor Approval">>,
      <<None, " COURSE TITLE ", "ELECTIVE approval">> }

LineSamples ==
    { <<"BIO 210 - Genetics", "BIOL 210", "", "Jane Doe", "">>,
      <<"ECON101 Macro", None, " J. Roe ", "  ", "ok">>,
      <<"Intro to Art", "AH 101", "X", "Y", None>>,
      <<"STAT 1003 Calculus", "", None, "  ", "">>,
      <<None, "", None, None, None>>,
      <<"  ", "x", "y", "", "">>,
      <<"CHEM 11">> }

Documents ==
    { [kind |-> "unreadable", table |-> <<>>, images |-> "raises"],
      [kind |-> "unreadable", table |-> <<>>, images |-> "some"],
      [kind |-> "no_pages", table |-> <<>>, images |-> "none"],
      [kind |-> "no_table", table |-> <<>>, images |-> "some"] }
    \cup { [kind |-> "table", table |-> <<FullHeader>> \o ls, images |-> "some"] :
              ls \in SeqsUpTo(LineSamples, MaxRows) }
    \cup { [kind |-> "table", table |-> <<h>> \o ls, images |-> "some"] :
              h \in HeaderSamples \ {FullHeader}, ls \in SeqsUpTo(LineSamples, 1) }

Course(number, title, equiv, credit, comments) ==
    [course_number |-> number, course_title |-> title, ur_course_equiv |-> equiv,
     type_of_credit |-> credit, comments |-> comments]

Answer(program, has_courses, courses) ==
    [kind |-> "object", program |-> program, has_courses |-> has_courses, courses |-> courses]

K1 == Course("ECON101", "Macro", "ECO 108", "Elective", "")

K2 == Course("Introduction to Sociology", "(4 credits)", None, "Major/Minor", None)

K3 == Course("Art History", "", "", " ", "")

K4 == Course(None, "Studio", "", "Approved", "")

K5 == Course("FREN 201", None, "", None, "not approved")

K6 == Course("MATH 150", "Calculus", "MATH 161", "Major/Minor, Elective", "")

ResponseSamples ==
    { [kind |-> "invalid_json"],
      [kind |-> "not_object"],
      Answer("DIS Copenhagen", FALSE, <<>>),
      Answer(None, TRUE, <<>>),
      Answer("DIS Copenhagen", TRUE, <<K1>>),
      Answer(None, TRUE, <<K6, K2>>),
      Answer("dis  copenhagen", TRUE, <<K5>>),
      Answer("IES Vienne", TRUE, <<K5, K2, K5>>),
      Answer("DIS Copenhagen", TRUE, <<K3>>),
      Answer("DIS Copenhagen", TRUE, <<K4, K1>>),
      Answer("Madrid", TRUE, <<K2, K3, K1>>),
      Answer("DIS", TRUE, <<K1, K5, K6>>) }

Entry(name, city, country) == [name |-> name, City |-> city, Country |-> country]

DirectorySamples ==
    { NoDirectory,
      [name_column |-> "Program Name",
       entries |-> <<Entry("Star icon DIS Copenhagen", "Copenhagen", "Denmark"),
                     Entry("IES Vienna", "Vienna", None)>>],
      [name_column |-> "Program",
       entries |-> <<Entry("DIS Copenhagen", "Copenhagen", "Denmark"),
                     Entry(" DIS Copenhagen", None, "DK")>>],
      [name_column |-> "Name",
       entries |-> <<Entry("DIS Copenhagen", "Copenhagen", "Denmark")>>] }

\* the Extract Courses handler is not running
LoopIdle ==
    /\ uploaded_files = <<>>
    /\ file_index = 0
    /\ all_rows = <<>>
    /\ outcomes = <<>>
    /\ result_df = <<>>

Init ==
    /\ call = [fn |-> "parse_caf_pdf_hybrid"]
    /\ ret = <<>>
    /\ pc = "STRUCTURAL_PARSE"
    /\ pdf \in Documents
    /\ directory \in DirectorySamples
    /\ response = [kind |-> "none"]
    /\ rows = EmptyFrame
    /\ origin = <<>>
    /\ extracted = EmptyFrame
    /\ ruleRows = <<>>
    /\ aiCalls = 0
    /\ result = <<>>
    /\ LoopIdle

Next ==
    \/ StructuralParse
    \/ \E data \in ResponseSamples : GenerativeFallback(data)
    \/ Normalize
    \/ Enrich
    \/ FilterProject

Spec == Init /\ [][Next]_vars

(***************************************************************************)
(* Specification SpecSplit: _split_course_number_title on every string     *)
(* over SplitAlphabet up to MaxLen characters, bare and behind the         *)
(* prefixes of SplitPrefixes, and on the samples of SplitSamples.          *)
(***************************************************************************)
MaxLen == 4

SplitAlphabet == {"A", "1", "-", EnDash, ":", " "}

SplitPrefixes == {"", "AB12", "AB 12"}

SplitSamples ==
    {"STAT 1003 - Calculus I", "Introduction to Microeconomics", "ECON101 Macro",
     "BIO 210 - Genetics", "  Intro   to  Art ", "Art ~ History 2", "3D Design - Studio"}

RECURSIVE StringsUpTo(_, _)
StringsUpTo(alphabet, n) ==
    IF n = 0 THEN {""}
    ELSE LET S == StringsUpTo(alphabet, n - 1) IN S \cup {s \o c : s \in S, c \in alphabet}

SplitInputs ==
    {p \o s : p \in SplitPrefixes, s \in StringsUpTo(SplitAlphabet, MaxLen)} \cup SplitSamples

PipeIdle ==
    /\ pc = "idle"
    /\ pdf = [kind |-> "none"]
    /\ response = [kind |-> "none"]
    /\ directory = NoDirectory
    /\ rows = EmptyFrame
    /\ origin = <<>>
    /\ extracted = EmptyFrame
    /\ ruleRows = <<>>
    /\ aiCalls = 0
    /\ result = <<>>
    /\ LoopIdle

SplitInit ==
    /\ call \in {[fn |-> "split", raw |-> r] : r \in SplitInputs}
    /\ ret = <<>>
    /\ PipeIdle

SplitCall ==
    /\ call.fn = "split"
    /\ ret = <<>>
    /\ ret' = <<_split_course_number_title(call.raw)>>
    /\ UNCHANGED <<call, pipeVars>>

SpecSplit == SplitInit /\ [][SplitCall]_vars

(***************************************************************************)
(* C7: the five ordered rules, stated over the positions of the string     *)
(***************************************************************************)
\* t has the code shape: 2+ letters, optional whitespace, 2+ digits, then
\* letters, digits and hyphens only.
C7_CodeShaped(t) ==
    \E l \in 2..Len(t), w \in 0..1, d \in 2..Len(t) :
        /\ l + w + d <= Len(t)
        /\ \A i \in 1..l : Ch(t, i) \in Letter
        /\ \A i \in (l + 1)..(l + w) : Ch(t, i) = " "
        /\ \A i \in (l + w + 1)..(l + w + d) : Ch(t, i) \in Digit
        /\ \A i \in (l + w + d + 1)..Len(t) : Ch(t, i) \in Letter \cup Digit \cup {"-"}

C7_CodePrefixes(text) == {n \in 1..Len(text) : C7_CodeShaped(SubSeq(text, 1, n))}

C7_Max(S) == CHOOSE n \in S : \A m \in S : m <= n

C7_Min(S) == CHOOSE n \in S : \A m \in S : n <= m

\* t without its leading ':', '-', en-dash and blanks
C7_Title(t) ==
    LET lead == {":", "-", EnDash, " "}
        j == C7_Min({i \in 1..(Len(t) + 1) : i = Len(t) + 1 \/ Ch(t, i) \notin lead})
    IN SubSeq(t, j, Len(t))

\* s without blanks at its ends
C7_Trim(s) ==
    LET keep == {i \in 1..Len(s) : Ch(s, i) # " "}
    IN IF keep = {} THEN "" ELSE SubSeq(s, C7_Min(keep), C7_Max(keep))

\* The result of the first applicable rule on the whitespace-normalised text,
\* rule 2 looking for its separator among the positions seps.
C7_Rules(text, seps) ==
    LET tokens == split(text)
    IN  IF text = "" THEN <<"", "">>
        ELSE IF C7_CodePrefixes(text) # {} THEN
            LET n == C7_Max(C7_CodePrefixes(text))
            IN <<SubSeq(text, 1, n), C7_Title(SubSeq(text, n + 1, Len(text)))>>
        ELSE IF seps # {} THEN
            LET i == C7_Min(seps)
                left == C7_Trim(SubSeq(text, 1, i - 1))
                right == C7_Trim(SubSeq(text, i + 1, Len(text)))
            IN IF C7_CodeShaped(left) THEN <<left, right>> ELSE <<"", text>>
        ELSE IF \A i \in 1..Len(text) : Ch(text, i) \notin Digit THEN <<"", text>>
        ELSE IF \E i \in 1..Len(tokens[1]) : Ch(tokens[1], i) \in Digit THEN
            <<tokens[1], join(" ", Tail(tokens))>>
        ELSE <<"", text>>

C7_Normalised(raw) == join(" ", split(raw))

C7_AnySeparator(text) == {i \in 1..Len(text) : Ch(text, i) \in {"-", EnDash}}

C7_InnerSeparator(text) == {i \in 2..(Len(text) - 1) : Ch(text, i) \in {"-", EnDash}}

\* C7 as stated: rule 2 applies whenever the string contains a '-' or en-dash
\* (the rules read on the whitespace-normalised input).
C7_AsStated ==
    ret # <<>> =>
        ret[1] = C7_Rules(C7_Normalised(call.raw), C7_AnySeparator(C7_Normalised(call.raw)))

\* C7 (amended): _split_course_number_title returns the result of the first
\* applicable rule of the five on the whitespace-normalised input, where rule 2
\* applies only to a '-' or en-dash that has a character before it and a
\* character after it; a separator that is the first or the last character
\* of the string leaves the string to rules 3 to 5.
C7_SplitFirstApplicableRule ==
    ret # <<>> =>
        ret[1] = C7_Rules(C7_Normalised(call.raw), C7_InnerSeparator(C7_Normalised(call.raw)))

\* C7 witness: a string whose only separator is its last character has been
\* split by rule 4.
C7_Witness == call.raw = "1-" /\ ret = << <<"1-", "">> >>

(***************************************************************************)
(* Specification SpecNorm: _normalize_course_number_title_columns on the   *)
(* empty frame and on frames of one and two records whose Course Number    *)
(* and Course Title are drawn from NumSamples and TitleSamples.            *)
(***************************************************************************)
NumSamples ==
    {None, "", "   ", "Intensive French Language and Culture Course",
     "Introduction to Sociology", "Art History", "Art Design", "ECON101",
     "ECON101 (3 credits)", "STAT 1003 credits", "4 Credits", "Elective credit",
     "BIO 210", "  Studio Art 2 ", " Credit Seminar "}

TitleSamples ==
    {None, "", "(4 credits)", " (4 credits) ", "Macro", "3 CREDITS",
     "Credit-bearing seminar in economics", "credits: 3 (elective",
     "credits: 3 (elective)"}

SampleRow(src, num, title) ==
    [c \in {RowColumns[i] : i \in 1..Len(RowColumns)} |->
        CASE c = "Course Number" -> num
          [] c = "Course Title" -> title
          [] c = "_source" -> src
          [] c \in {"Year", "City", "Country", "US Credits", "Foreign Credits"} -> None
          [] c = "Type of Credit" -> "Elective"
          [] OTHER -> ""]

NormFrames ==
    {EmptyFrame}
    \cup {FrameOf(<<SampleRow("ai", n, t)>>) : n \in NumSamples, t \in TitleSamples}
    \cup {FrameOf(<<SampleRow("rule", "ECON101", "Macro"), SampleRow("ai", n, "(4 credits)")>>) :
              n \in NumSamples}

NormInit ==
    /\ call \in {[fn |-> "normalize", df |-> f] : f \in NormFrames}
    /\ ret = <<>>
    /\ PipeIdle

NormCall ==
    /\ call.fn = "normalize"
    /\ ret = <<>>
    /\ ret' = <<_normalize_course_number_title_columns(call.df)>>
    /\ UNCHANGED <<call, pipeVars>>

SpecNorm == NormInit /\ [][NormCall]_vars

(***************************************************************************)
(* C8: the repair cases of the normalizer                                  *)
(***************************************************************************)
C8_Text(x) == IF x = None THEN "" ELSE C7_Trim(x)

C8_Num(row) == C8_Text(row["Course Number"])

C8_Title(row) == C8_Text(row["Course Title"])

C8_MentionsCredit(s) ==
    \E i \in 1..Len(s) : i + 5 <= Len(s) /\ lower(SubSeq(s, i, i + 5)) = "credit"

\* code-shaped as the normalizer reads it: the first token has the code shape
C8_CodeShaped(s) == s # "" /\ C7_CodeShaped(split(s)[1])

C8_CaseA(row) ==
    /\ \A i \in 1..Len(C8_Num(row)) : Ch(C8_Num(row), i) \notin Digit
    /\ Len(C8_Num(row)) >= 11
    /\ ~C8_CodeShaped(C8_Num(row))

C8_CaseB(row) == C8_MentionsCredit(C8_Num(row)) /\ ~C8_CodeShaped(C8_Num(row))

C8_CaseC(row) ==
    /\ C8_Title(row) # ""
    /\ C8_MentionsCredit(C8_Title(row))
    /\ Len(C8_Title(row)) < 21

C8_Moved(before, after) ==
    after = [before EXCEPT !["Course Number"] = "", !["Course Title"] = C8_Num(before)]

C8_Merged(before, after) ==
    after = [before EXCEPT !["Course Number"] = "",
                           !["Course Title"] = C8_Num(before) \o " " \o C8_Title(before)]

C8_Rows == IF ret = <<>> THEN {} ELSE 1..Len(call.df.data)

\* C8 as stated: Case A or B moves CourseNumber into CourseTitle also when the
\* Case C condition holds; the merge is applied only when neither A nor B holds.
C8_AsStated ==
    \A i \in C8_Rows :
        LET before == call.df.data[i]
            after == ret[1].data[i]
        IN  /\ C8_Num(before) = "" => after = before
            /\ C8_Num(before) # "" /\ (C8_CaseA(before) \/ C8_CaseB(before))
                    => C8_Moved(before, after)
            /\ C8_Num(before) # "" /\ ~C8_CaseA(before) /\ ~C8_CaseB(before) /\ C8_CaseC(before)
                    => C8_Merged(before, after)

\* C8 (amended): for a record with non-empty CourseNumber, whenever the Case C
\* condition holds the merge (CourseNumber + " " + CourseTitle) is applied, also
\* when Case A or Case B holds at the same time; when Case A or B holds and
\* Case C does not, CourseTitle becomes the old CourseNumber text; either way
\* CourseNumber becomes ""; when no case holds, and when CourseNumber is empty,
\* the record is left unchanged.
C8_OneRepairPerRecord ==
    /\ ret # <<>> => ret[1].columns = call.df.columns /\ Len(ret[1].data) = Len(call.df.data)
    /\ \A i \in C8_Rows :
        LET before == call.df.data[i]
            after == ret[1].data[i]
        IN  /\ C8_Num(before) = "" => after = before
            /\ C8_Num(before) # "" /\ C8_CaseC(before) => C8_Merged(before, after)
            /\ C8_Num(before) # "" /\ ~C8_CaseC(before) /\ (C8_CaseA(before) \/ C8_CaseB(before))
                    => C8_Moved(before, after)
            /\ ~C8_CaseA(before) /\ ~C8_CaseB(before) /\ ~C8_CaseC(before) => after = before

\* C8 witness: a record for which Case A and Case C hold together has been merged.
C8_Witness ==
    /\ ret # <<>>
    /\ \E i \in C8_Rows :
        /\ C8_CaseA(call.df.data[i]) /\ C8_CaseC(call.df.data[i])
        /\ ret[1].data[i]["Course Title"] = "Introduction to Sociology (4 credits)"
        /\ ret[1].data[i]["Course Number"] = ""

(***************************************************************************)
(* Specification SpecMatch: _match_program_name on the queries of          *)
(* QuerySamples against every directory of at most MaxDir names drawn      *)
(* from NameSamples.                                                       *)
(***************************************************************************)
MaxDir == 2

NameSamples ==
    {"DIS Copenhagen", "DIS", "DIS  Copenhagen", "Star icon DIS Copenhagen",
     "DIS Copenhagem", "IES Vienna", "Vienna IES Abroad", "", "IES Vienne"}

QuerySamples ==
    NameSamples \cup
    {"Copenhagen DIS", "DIS Stockholm", "Madrid", "Star icon", "dis copenhagen ", "IES Viennx"}

MatchInit ==
    /\ call \in {[fn |-> "match", value |-> q, program_list |-> d] :
                    q \in QuerySamples, d \in SeqsUpTo(NameSamples, MaxDir)}
    /\ ret = <<>>
    /\ PipeIdle

MatchCall ==
    /\ call.fn = "match"
    /\ ret = <<>>
    /\ ret' = <<_match_program_name(call.value, call.program_list)>>
    /\ UNCHANGED <<call, pipeVars>>

SpecMatch == MatchInit /\ [][MatchCall]_vars

(***************************************************************************)
(* C6: exact, then token subset, then fuzzy                                *)
(***************************************************************************)
\* strip "Star icon", trim, case-fold
C6_Fold(x) == lower(C7_Trim(remove_all(x, "Star icon")))

\* strip "Star icon", trim, case-fold, collapse internal whitespace
C6_FoldCollapse(x) == join(" ", split(C6_Fold(x)))

\* the maximal blank-free stretches of s
C6_Tokens(s) ==
    LET starts == {i \in 1..Len(s) : Ch(s, i) # " " /\ (i = 1 \/ Ch(s, i - 1) = " ")}
        ends == {j \in 1..Len(s) : Ch(s, j) # " " /\ (j = Len(s) \/ Ch(s, j + 1) = " ")}
    IN {SubSeq(s, i, C7_Min({j \in ends : j >= i})) : i \in starts}

C6_Exact(N(_), q, d) == {i \in 1..Len(d) : N(d[i]) = N(q)}

C6_Subset(N(_), q, d) ==
    {i \in 1..Len(d) : C6_Tokens(N(q)) \subseteq C6_Tokens(N(d[i]))
                       \/ C6_Tokens(N(d[i])) \subseteq C6_Tokens(N(q))}

\* twice the matched size over the summed lengths, as a pair <<numerator, denominator>>
C6_Ratio(N(_), q, e) == <<2 * matching_size(N(e), N(q)), Len(N(e)) + Len(N(q))>>

C6_Close(N(_), q, d) ==
    {i \in 1..Len(d) : 10 * C6_Ratio(N, q, d[i])[1] >= 6 * C6_Ratio(N, q, d[i])[2]}

C6_Best(N(_), q, d) ==
    {i \in C6_Close(N, q, d) : \A j \in C6_Close(N, q, d) :
        C6_Ratio(N, q, d[j])[1] * C6_Ratio(N, q, d[i])[2]
            <= C6_Ratio(N, q, d[i])[1] * C6_Ratio(N, q, d[j])[2]}

\* C6 as stated, for the queries that are not blank: with whitespace-collapsing
\* normalization, an entry equal to the query is returned; else a token-subset
\* match; else a best fuzzy match; else none.
C6_AsStated ==
    ret # <<>> /\ C6_Tokens(C6_FoldCollapse(call.value)) # {} =>
        LET q == call.value
            d == call.program_list
        IN  IF C6_Exact(C6_FoldCollapse, q, d) # {}
                THEN \E i \in C6_Exact(C6_FoldCollapse, q, d) : ret[1] = d[i]
            ELSE IF C6_Subset(C6_FoldCollapse, q, d) # {}
                THEN \E i \in C6_Subset(C6_FoldCollapse, q, d) : ret[1] = d[i]
            ELSE IF C6_Close(C6_FoldCollapse, q, d) # {}
                THEN \E i \in C6_Best(C6_FoldCollapse, q, d) : ret[1] = d[i]
            ELSE ret[1] = None

\* C6 (amended): with normalization = strip "Star icon", trim, case-fold (internal
\* whitespace is kept), _match_program_name returns none for a query whose
\* normalization is blank, and for every other query the first directory entry
\* whose normalized name equals the normalized query, even when another entry
\* would token-subset-match or fuzzy-match; otherwise the first entry that
\* token-subset-matches; otherwise an entry of best fuzzy ratio among those
\* with ratio at least 0.6; otherwise none.
C6_ExactThenSubsetThenFuzzy ==
    ret # <<>> =>
        LET q == call.value
            d == call.program_list
        IN  IF C6_Tokens(C6_Fold(q)) = {} THEN ret[1] = None
            ELSE IF C6_Exact(C6_Fold, q, d) # {}
                THEN ret[1] = d[C7_Min(C6_Exact(C6_Fold, q, d))]
            ELSE IF C6_Subset(C6_Fold, q, d) # {}
                THEN ret[1] = d[C7_Min(C6_Subset(C6_Fold, q, d))]
            ELSE IF C6_Close(C6_Fold, q, d) # {}
                THEN \E i \in C6_Best(C6_Fold, q, d) : ret[1] = d[i]
            ELSE ret[1] = None

\* C6 witness: the exact match, second in the directory, was returned although
\* the first entry token-subset-matches the query.
C6_Witness ==
    /\ call.value = "dis copenhagen "
    /\ call.program_list = <<"DIS", "DIS Copenhagen">>
    /\ ret = <<"DIS Copenhagen">>

\* the fuzzy pass decided: no exact and no token-subset match, ratio >= 0.6
C6_WitnessFuzzy ==
    /\ call.value = "IES Viennx"
    /\ call.program_list = <<"DIS", "IES Vienna">>
    /\ ret = <<"IES Vienna">>

(***************************************************************************)
(* Claims on parse_caf_pdf_hybrid (specification Spec)                     *)
(***************************************************************************)
Parsed == pc # "STRUCTURAL_PARSE"

\* the state the structural parse leaves; ruleRows does not change after it
JustParsed == pc \in {"GENERATIVE_FALLBACK", "NORMALIZE"}

\* the data lines of the document's grid
GridLines == Tail(pdf.table)

GridHeader == [i \in 1..Len(pdf.table[1]) |-> OrEmpty(pdf.table[1][i])]

\* the position of the identifier column: the first header cell that contains
\* "subject", "number" or "title", whatever the case; 0 when there is none
IdColumn ==
    LET hits == {i \in 1..Len(GridHeader) :
                    \E kw \in {"subject", "number", "title"} : contains(lower(GridHeader[i]), kw)}
    IN IF hits = {} THEN 0 ELSE C7_Min(hits)

NonBlank(cell) == cell # None /\ \E i \in 1..Len(cell) : Ch(cell, i) \notin Space

\* the cell of a line in a column; None when the column is not located or
\* the line does not reach it
CellAt(line, col) == IF col = 0 \/ col > Len(line) THEN None ELSE line[col]

\* reading the line raises: the line has a non-empty cell and is too short for
\* the identifier column, or has a non-blank identifier and is too short for
\* another located column
LineRaises(line, id, located) ==
    /\ \E i \in 1..Len(line) : line[i] # None /\ line[i] # ""
    /\ id # 0
    /\ \/ id > Len(line)
       \/ /\ NonBlank(line[id])
          /\ \E col \in located : col > Len(line)

\* the positions of the other columns the header locates (0 for one it does not)
LocatedColumns ==
    LET header == header_of(pdf.table)
    IN {idx_equiv(header), idx_elective(header), idx_major(header), idx_comments(header)}

\* the structural parse raises inside its try block
ParseRaises ==
    \/ pdf.kind \in {"unreadable", "no_pages"}
    \/ /\ pdf.kind = "table"
       /\ LET id == IdColumn
              located == LocatedColumns
          IN \E i \in 1..Len(GridLines) : LineRaises(GridLines[i], id, located)

\* C1: the generative collaborator is invoked at most once per document, and it
\* is invoked if and only if the structural parse produced zero rows; an
\* exception inside the structural parse is absorbed as zero rows and routes to
\* the fallback: the only errors such a document can end with are those of the
\* later stages, raised after the collaborator was asked.
C1_FallbackIffNoRows ==
    /\ aiCalls \in {0, 1}
    /\ pc = "STRUCTURAL_PARSE" => aiCalls = 0
    /\ pc = "GENERATIVE_FALLBACK" => aiCalls = 0 /\ ruleRows = <<>>
    /\ pc \in {"NORMALIZE", "ENRICH", "FILTER", "DONE", "ERROR"} =>
          (aiCalls = 1 <=> ruleRows = <<>>)
    /\ Parsed =>
          \/ /\ ruleRows = <<>>
             /\ pc # "GENERATIVE_FALLBACK" => aiCalls = 1
             /\ pc = "ERROR" =>
                   result \in {<<"error", "GENERATIVE_FALLBACK">>, <<"error", "ENRICH">>}
          \/ ~ParseRaises

\* C1 witness: a grid with a ragged row was absorbed, the collaborator was
\* asked once and its records reached the output.
C1_Witness ==
    /\ pc = "DONE"
    /\ pdf.kind = "table" /\ ParseRaises
    /\ aiCalls = 1
    /\ result = <<"ok">> /\ Len(rows.data) > 0

\* the answer is not valid JSON, or is a JSON object without the courses key
MalformedAnswer ==
    \/ response.kind = "invalid_json"
    \/ response.kind = "object" /\ ~response.has_courses

\* C2: when the fallback is taken, an answer that is not valid JSON, or that
\* lacks the courses key, ends the document with an error, never with a result.
C2_MalformedAnswerIsFatal ==
    aiCalls = 1 /\ MalformedAnswer => pc = "ERROR" /\ result = <<"error", "GENERATIVE_FALLBACK">>

\* the part of C2 the code keeps: an answer that is not valid JSON is fatal
C2_InvalidJsonIsFatal ==
    aiCalls = 1 /\ response.kind = "invalid_json" =>
        pc = "ERROR" /\ result = <<"error", "GENERATIVE_FALLBACK">>

Finished == pc = "DONE" /\ result = <<"ok">>

\* C3: the final output holds exactly the extracted records whose TypeOfCredit
\* is non-empty.
C3_OutputIsNonEmptyCredit ==
    Finished =>
        {origin[k] : k \in 1..Len(origin)}
            = {j \in 1..Len(extracted.data) : extracted.data[j]["Type of Credit"] # ""}

CreditLiterals == {"", "Elective", "Major/Minor", "Major/Minor, Elective"}

\* C4: in every record at every pipeline stage TypeOfCredit is one of the four
\* literals.
C4_CreditIsLiteral ==
    \A i \in 1..Len(rows.data) : rows.data[i]["Type of Credit"] \in CreditLiterals

\* the lines of the grid whose identifier cell is non-blank, in row order
EmittingLines ==
    LET id == IdColumn
    IN SelectSeq(GridLines, LAMBDA line : NonBlank(CellAt(line, id)))

C9_Table(major_present, elective_present) ==
    CASE major_present /\ elective_present -> "Major/Minor, Elective"
      [] major_present /\ ~elective_present -> "Major/Minor"
      [] ~major_present /\ elective_present -> "Elective"
      [] ~major_present /\ ~elective_present -> ""

\* C9: the TypeOfCredit of every record of the structural extractor follows the
\* truth table on the presence of the row's major/minor cell and elective cell.
C9_CreditTruthTable ==
    JustParsed /\ ruleRows # <<>> =>
        LET emitting == EmittingLines
            major == idx_major(header_of(pdf.table))
            elective == idx_elective(header_of(pdf.table))
        IN /\ Len(ruleRows) = Len(emitting)
           /\ \A k \in 1..Len(ruleRows) :
                ruleRows[k]["Type of Credit"] =
                    C9_Table(NonBlank(CellAt(emitting[k], major)),
                             NonBlank(CellAt(emitting[k], elective)))

\* C9 witness: the extractor classified a row with only the major/minor cell
\* present and a row with neither cell present.
C9_Witness ==
    /\ JustParsed /\ Len(ruleRows) = 2
    /\ NonBlank(CellAt(EmittingLines[1], idx_major(header_of(pdf.table))))
    /\ ~NonBlank(CellAt(EmittingLines[1], idx_elective(header_of(pdf.table))))
    /\ ruleRows[1]["Type of Credit"] = "Major/Minor"
    /\ ruleRows[2]["Type of Credit"] = ""

\* one record with SourceTag rule per line with a non-blank identifier, in row order
C10_OnePerLine ==
    LET id == IdColumn
        emitting == EmittingLines
    IN /\ Len(ruleRows) = Len(emitting)
       /\ \A k \in 1..Len(ruleRows) :
            /\ ruleRows[k]["_source"] = "rule"
            /\ <<ruleRows[k]["Course Number"], ruleRows[k]["Course Title"]>>
                  = _split_course_number_title(strip(emitting[k][id]))

\* C10 as stated: zero rows when no header cell names the identifier column;
\* otherwise one record per data row with a non-blank identifier cell.
C10_AsStated ==
    JustParsed /\ pdf.kind = "table" =>
        IF IdColumn = 0 THEN ruleRows = <<>> ELSE C10_OnePerLine

\* C10 (amended): for every table grid the structural extractor emits zero rows
\* when no header cell contains "subject", "number" or "title", and zero rows
\* when reading a data row raises (a row with a non-empty cell that is too short
\* to hold the identifier column, or a row with a non-blank identifier that is
\* too short to hold another located column); otherwise it emits exactly one
\* record with SourceTag "rule" per data row whose identifier cell is non-blank
\* after trimming, in row order, and no record for the other rows.
C10_OnePerIdentifiedRow ==
    JustParsed /\ pdf.kind = "table" =>
        IF IdColumn = 0 \/ ParseRaises THEN ruleRows = <<>> ELSE C10_OnePerLine

\* C10 witness: of two data rows the one with a blank identifier gave no record
\* and the other gave one.
C10_Witness ==
    /\ pc = "NORMALIZE" /\ pdf.kind = "table" /\ IdColumn = 1
    /\ Len(GridLines) = 2 /\ GridLines[1][1] = "  "
    /\ Len(ruleRows) = 1 /\ ruleRows[1]["Course Number"] = "BIO 210"

\* C11: every result returned without an error, also one with zero records,
\* has exactly the 17 canonical columns in the fixed order, and each of its
\* records has a value, possibly null, for each of them.
C11_DoneIsProjected ==
    Finished =>
        /\ rows.columns = desired_order
        /\ \A i \in 1..Len(rows.data) :
              DOMAIN rows.data[i] = {desired_order[c] : c \in 1..Len(desired_order)}

\* the part of C11 the code keeps: a result that went through the filter is
\* projected, also when the filter left no record
C11_FilteredIsProjected ==
    Finished /\ extracted # EmptyFrame =>
        /\ rows.columns = desired_order
        /\ \A i \in 1..Len(rows.data) :
              DOMAIN rows.data[i] = {desired_order[c] : c \in 1..Len(desired_order)}

\* the state the ENRICH step leaves
JustEnriched == pc = "FILTER"

\* C13: the ENRICH step neither adds, removes, duplicates nor reorders records:
\* the records after it are the records before it, one for one and in the same
\* order, whatever the directory.
C13_EnrichKeepsRecords ==
    JustEnriched =>
        /\ Len(rows.data) = Len(extracted.data)
        /\ origin = [i \in 1..Len(extracted.data) |-> i]

\* the part of C13 the code keeps: no record is removed or reordered, every
\* record after the step comes from a record before it
C13_EnrichKeepsOrder ==
    JustEnriched =>
        /\ Len(origin) = Len(rows.data)
        /\ {origin[k] : k \in 1..Len(origin)} = 1..Len(extracted.data)
        /\ \A k \in 1..(Len(origin) - 1) : origin[k] <= origin[k + 1]

(***************************************************************************)
(* Specification SpecEnrich: step 4 of parse_caf_pdf_hybrid applied to     *)
(* frames of at most MaxRecords records whose City and Country may already *)
(* be filled, under each directory of DirectorySamples.                   *)
(***************************************************************************)
MaxRecords == 2

EnrichRow(program, city, country) ==
    [SampleRow("ai", "MATH 150", "Calculus") EXCEPT
        !["Program"] = program, !["City"] = city, !["Country"] = country]

EnrichRows ==
    { EnrichRow(p, ci, co) : p \in {"DIS Copenhagen", "IES Vienne", "Madrid"},
                             ci \in {None, "Aarhus"},
                             co \in {None, "", "Norway"} }

EnrichFrames == {FrameOf(rs) : rs \in SeqsUpTo(EnrichRows, MaxRecords) \ {<<>>}}

EnrichInit ==
    /\ call \in {[fn |-> "enrich", df |-> f, program_directory |-> d] :
                    f \in EnrichFrames, d \in DirectorySamples}
    /\ ret = <<>>
    /\ PipeIdle

EnrichCall ==
    /\ call.fn = "enrich"
    /\ ret = <<>>
    /\ ret' = <<enrich(call.df, [i \in 1..Len(call.df.data) |-> i], call.program_directory)>>
    /\ UNCHANGED <<call, pipeVars>>

SpecEnrich == EnrichInit /\ [][EnrichCall]_vars

Enriched == call.fn = "enrich" /\ ret # <<>> /\ ~ret[1].raised

Filled(x) == x # None /\ x # ""

C5_DirectoryValues(name, col) ==
    LET d == call.program_directory
    IN {d.entries[r][col] : r \in {r \in 1..Len(d.entries) : directory_programs(d)[r] = name}}

\* the values a column has after ENRICH in the records that come from record j
C5_After(j, col) ==
    {ret[1].frame.data[k][col] : k \in {k \in 1..Len(ret[1].origin) : ret[1].origin[k] = j}}

is_empty(df) == df.data = <<>> \/ df.columns = <<>>

\* df["Source File"] = file.name
with_source_file(df, name) ==
    DataFrame(Append(df.columns, "Source File"),
              [k \in 1..Len(df.data) |->
                  [c \in DOMAIN df.data[k] \cup {"Source File"} |->
                      IF c = "Source File" THEN name ELSE df.data[k][c]]])

\* A handler that forgets the frames it has when a file fails.
collect_reset_on_error(raised, df, name, frames) ==
    IF raised THEN <<>>
    ELSE IF is_empty(df) THEN frames
    ELSE Append(frames, with_source_file(df, name))

\* the body of the loop after the call: all_rows after one file
collect(raised, df, name, frames) ==
    IF raised THEN frames
    ELSE IF is_empty(df) THEN frames
    ELSE Append(frames, with_source_file(df, name))

RECURSIVE concat_data(_)
concat_data(frames) ==
    IF frames = <<>> THEN <<>> ELSE Head(frames).data \o concat_data(Tail(frames))

\* the columns of the concatenation: those of the frames, in order of first appearance
RECURSIVE concat_columns(_)
concat_columns(frames) ==
    IF frames = <<>> THEN <<>>
    ELSE LET before == concat_columns(SubSeq(frames, 1, Len(frames) - 1))
             seen == {before[i] : i \in 1..Len(before)}
         IN before \o SelectSeq(frames[Len(frames)].columns, LAMBDA c : c \notin seen)

\* pd.concat(all_rows, ignore_index=True)
pd_concat(frames) ==
    DataFrame(concat_columns(frames),
              [k \in 1..Len(concat_data(frames)) |->
                  [c \in {concat_columns(frames)[i] : i \in 1..Len(concat_columns(frames))} |->
                      IF c \in DOMAIN concat_data(frames)[k]
                      THEN concat_data(frames)[k][c] ELSE None]])

\* for file in uploaded_files: pdf_bytes = file.read(), and the call of
\* parse_caf_pdf_hybrid, whose locals are new
ReadFile ==
    /\ pc = "NEXT_FILE"
    /\ file_index < Len(uploaded_files)
    /\ file_index' = file_index + 1
    /\ pdf' = uploaded_files[file_index'].pdf
    /\ pc' = "STRUCTURAL_PARSE"
    /\ response' = [kind |-> "none"]
    /\ rows' = EmptyFrame
    /\ origin' = <<>>
    /\ extracted' = EmptyFrame
    /\ ruleRows' = <<>>
    /\ aiCalls' = 0
    /\ result' = <<>>
    /\ UNCHANGED <<call, ret, directory, uploaded_files, all_rows, outcomes, result_df>>

\* except Exception: continue / if df.empty: continue / all_rows.append(df)
Collect ==
    /\ file_index > 0
    /\ pc \in {"DONE", "ERROR"}
    /\ all_rows' = collect(pc = "ERROR", rows, uploaded_files[file_index].name, all_rows)
    /\ outcomes' = Append(outcomes, [ok |-> pc = "DONE", frame |-> rows])
    /\ pc' = "NEXT_FILE"
    /\ UNCHANGED <<call, ret, pdf, response, directory, rows, origin, extracted, ruleRows,
                   aiCalls, result, uploaded_files, file_index, result_df>>

\* after the loop: st.stop() when nothing was appended, else pd.concat
Concat ==
    /\ pc = "NEXT_FILE"
    /\ file_index = Len(uploaded_files)
    /\ IF all_rows = <<>>
       THEN pc' = "STOPPED" /\ UNCHANGED result_df
       ELSE pc' = "SHOWN" /\ result_df' = <<pd_concat(all_rows)>>
    /\ UNCHANGED <<call, ret, pdf, response, directory, rows, origin, extracted, ruleRows,
                   aiCalls, result, uploaded_files, file_index, all_rows, outcomes>>

(***************************************************************************)
(* Specification SpecLoop: the handler on at most MaxFiles uploaded files  *)
(* of LoopDocuments, the collaborator answering with one of LoopResponses. *)
(***************************************************************************)
MaxFiles == 2

FileNames == <<"a.pdf", "b.pdf", "c.pdf", "d.pdf">>

LoopDocuments ==
    { [kind |-> "table", images |-> "some",
       table |-> <<FullHeader, <<"BIO 210 - Genetics", "BIOL 210", "", "Jane Doe", "">> >>],
      [kind |-> "table", images |-> "some",
       table |-> <<FullHeader, <<"STAT 1003 Calculus", "", None, "  ", "">> >>],
      [kind |-> "unreadable", table |-> <<>>, images |-> "some"],
      [kind |-> "unreadable", table |-> <<>>, images |-> "raises"] }

LoopResponses ==
    { [kind |-> "invalid_json"],
      Answer(None, TRUE, <<>>),
      Answer("DIS Copenhagen", TRUE, <<K1>>) }

LoopDirectories ==
    { NoDirectory,
      [name_column |-> "Program Name",
       entries |-> <<Entry("Star icon DIS Copenhagen", "Copenhagen", "Denmark")>>] }

LoopInit ==
    /\ uploaded_files \in
          {[i \in 1..Len(ds) |-> [name |-> FileNames[i], pdf |-> ds[i]]] :
              ds \in SeqsUpTo(LoopDocuments, MaxFiles) \ {<<>>}}
    /\ directory \in LoopDirectories
    /\ call = [fn |-> "extract_courses", program_dir_df |-> directory]
    /\ ret = <<>>
    /\ file_index = 0
    /\ all_rows = <<>>
    /\ outcomes = <<>>
    /\ result_df = <<>>
    /\ pc = "NEXT_FILE"
    /\ pdf = [kind |-> "none"]
    /\ response = [kind |-> "none"]
    /\ rows = EmptyFrame
    /\ origin = <<>>
    /\ extracted = EmptyFrame
    /\ ruleRows = <<>>
    /\ aiCalls = 0
    /\ result = <<>>

LoopNext ==
    \/ ReadFile
    \/ StructuralParse
    \/ \E data \in LoopResponses : GenerativeFallback(data)
    \/ Normalize
    \/ Enrich
    \/ FilterProject
    \/ Collect
    \/ Concat

SpecLoop == LoopInit /\ [][LoopNext]_vars

\* the document succeeded with at least one record
C12_Succeeded(outcome) == outcome.ok /\ outcome.frame.data # <<>>

\* the records of the outputs of the first n files that succeeded with at least
\* one record, in upload order, each with the name of its file
RECURSIVE C12_Concatenation(_)
C12_Concatenation(n) ==
    IF n = 0 THEN <<>>
    ELSE C12_Concatenation(n - 1)
         \o (IF C12_Succeeded(outcomes[n])
             THEN [k \in 1..Len(outcomes[n].frame.data) |->
                     [file |-> uploaded_files[n].name, record |-> outcomes[n].frame.data[k]]]
             ELSE <<>>)

\* a record of the handler's frames, as the file it names and the rest of it
C12_Split(row) ==
    [file |-> row["Source File"],
     record |-> [c \in DOMAIN row \ {"Source File"} |-> row[c]]]

C12_Records(data) == [k \in 1..Len(data) |-> C12_Split(data[k])]

\* C12: per-document isolation in the handler.  Every call of
\* parse_caf_pdf_hybrid starts on its own file with new locals and the
\* directory of the handler, whatever happened to the files before it; a fatal
\* error does not end the loop: the handler only finishes when every file has
\* been processed; and what it has collected is at every moment the
\* concatenation, in upload order, of the outputs of the files processed so far
\* that succeeded with at least one record (each record carrying the name of its
\* file), which is the combined result it shows.
C12_PerDocumentIsolation ==
    /\ directory = call.program_dir_df
    /\ Len(outcomes) = (IF pc = "NEXT_FILE" \/ pc = "SHOWN" \/ pc = "STOPPED"
                        THEN file_index ELSE file_index - 1)
    /\ pc = "STRUCTURAL_PARSE" =>
          /\ pdf = uploaded_files[file_index].pdf
          /\ rows = EmptyFrame /\ extracted = EmptyFrame /\ origin = <<>>
          /\ ruleRows = <<>> /\ aiCalls = 0 /\ result = <<>>
    /\ C12_Records(concat_data(all_rows)) = C12_Concatenation(Len(outcomes))
    /\ pc \in {"SHOWN", "STOPPED"} => Len(outcomes) = Len(uploaded_files)
    /\ pc = "SHOWN" =>
          /\ result_df # <<>>
          /\ C12_Records(result_df[1].data) = C12_Concatenation(Len(uploaded_files))
    /\ pc = "STOPPED" => result_df = <<>> /\ C12_Concatenation(Len(uploaded_files)) = <<>>

\* C12 witness: the first file failed with a fatal error, the second was still
\* processed and its records are the combined result.
C12_Witness ==
    /\ pc = "SHOWN"
    /\ Len(outcomes) = 2
    /\ ~outcomes[1].ok
    /\ C12_Succeeded(outcomes[2])
    /\ Len(result_df[1].data) = Len(outcomes[2].frame.data)

====
